---- MODULE Spec2Model ----
(***************************************************************************)
(* sist2-python: the Sist2Index facade over a sist2 SQLite index file.     *)
(*                                                                         *)
(* The index file is `disk` (the committed tables).  Every facade owns one *)
(* sqlite3 connection (`conn`), one cursor (`cur`) and the pagination      *)
(* position `last_id`.  Python's sqlite3 opens a transaction implicitly    *)
(* before the first REPLACE / UPDATE / DELETE of a connection and keeps    *)
(* it open until commit(); a connection that goes away rolls it back.      *)
(* SELECTs run outside a transaction and read the committed tables, or     *)
(* the connection's own uncommitted tables while its transaction is open.  *)
(***************************************************************************)
EXTENDS Integers, Sequences, FiniteSets, TLC

VARIABLES
    disk,       \* the committed tables of the index file
    conn,       \* per facade: self.conn (open?, in_transaction, uncommitted tables;
                \* history: calls, the calls made on the facade: 0, 1 or more)
    cur,        \* per facade: self.cur, the rows of the last result set not yet fetched
    last_id,    \* per facade: self.last_id
    descriptor, \* per facade: self._descriptor
    versions,   \* per facade: self._versions
    gen,        \* the generator objects returned by document_iter
    kvlog,      \* history: per key, the latest set(), what became of it, and the
                \* facades made after it was committed or lost
    last        \* history: the last call, its arguments, its result, its effect

vars == <<disk, conn, cur, last_id, descriptor, versions, gen, kvlog, last>>

(***************************************************************************)
(* Bounds of the model.                                                    *)
(***************************************************************************)
MaxId == 3

Facades == {1, 2}
Gens == {1, 2}
Ids == 1..MaxId

(***************************************************************************)
(* Python values.                                                          *)
(***************************************************************************)
\* None, as held by self.last_id and by the `end` argument; never a row id.
None == -1

\* A str or an int handed to set(): the type tag and the text of the value.
PyStr(s) == [t |-> "str", v |-> s]
PyInt(s) == [t |-> "int", v |-> s]

Min(S) == CHOOSE x \in S : \A y \in S : x <= y
Max(S) == CHOOSE x \in S : \A y \in S : x >= y

RECURSIVE SortedSeq(_)
SortedSeq(S) == IF S = {} THEN <<>> ELSE <<Min(S)>> \o SortedSeq(S \ {Min(S)})

Range(s) == {s[i] : i \in DOMAIN s}

\* The rows of a set in the order the engine happens to return them.
RECURSIVE AnyOrder(_)
AnyOrder(S) ==
    IF S = {} THEN <<>>
    ELSE LET r == CHOOSE x \in S : TRUE IN <<r>> \o AnyOrder(S \ {r})

RECURSIVE OrderById(_)
OrderById(rows) ==
    IF rows = {} THEN <<>>
    ELSE LET r == CHOOSE x \in rows : \A y \in rows : x.id <= y.id
         IN  <<r>> \o OrderById(rows \ {r})

(***************************************************************************)
(* json.loads / json.dumps.  A json text is the value it encodes together  *)
(* with how it is written: the indexer writes its own layout ("c"),        *)
(* json.dumps writes Python's default separators ("py").                   *)
(***************************************************************************)
json_loads(text) == text.val
json_dumps(value) == [fmt |-> "py", val |-> value]
IndexerJson(value) == [fmt |-> "c", val |-> value]

\* The attribute bag of a document, with or without a tag array.
Bag(extension) == [path |-> "a", name |-> "f", extension |-> extension]
TaggedBag(extension, tags) ==
    [path |-> "a", name |-> "f", extension |-> extension, tag |-> tags]

(***************************************************************************)
(* The SQL engine: WHERE clauses.  A clause is the sequence of its tokens, *)
(* as the code concatenates them; the engine parses it with AND binding    *)
(* tighter than OR and parentheses grouping.                               *)
(***************************************************************************)
RECURSIVE DepthAt(_, _)
DepthAt(toks, i) ==
    IF i <= 1 THEN 0
    ELSE DepthAt(toks, i - 1)
         + (IF toks[i - 1] = "(" THEN 1 ELSE IF toks[i - 1] = ")" THEN -1 ELSE 0)

TopLevel(toks, op) ==
    {i \in 1..Len(toks) : toks[i] = op /\ DepthAt(toks, i) = 0}

EvalAtom(tok, row, args) ==
    CASE tok = "size > 1" -> row.size > 1
      [] tok = "mtime > 1" -> row.mtime > 1
      [] tok = "document.id > ?" -> row.id > args[1]
      [] OTHER -> FALSE

RECURSIVE EvalExpr(_, _, _)
EvalExpr(toks, row, args) ==
    IF TopLevel(toks, "OR") # {}
    THEN LET i == Min(TopLevel(toks, "OR"))
         IN  EvalExpr(SubSeq(toks, 1, i - 1), row, args)
             \/ EvalExpr(SubSeq(toks, i + 1, Len(toks)), row, args)
    ELSE IF TopLevel(toks, "AND") # {}
    THEN LET i == Min(TopLevel(toks, "AND"))
         IN  EvalExpr(SubSeq(toks, 1, i - 1), row, args)
             /\ EvalExpr(SubSeq(toks, i + 1, Len(toks)), row, args)
    ELSE IF toks[1] = "("
    THEN EvalExpr(SubSeq(toks, 2, Len(toks) - 1), row, args)
    ELSE EvalAtom(toks[1], row, args)

\* The rows of `rows` a clause selects: all of them without a WHERE.
Where(rows, clause, args) ==
    {r \in rows : clause = <<>> \/ EvalExpr(Tail(clause), r, args)}

\* ORDER BY document.id LIMIT 1
OrderByIdLimit1(rows) ==
    IF rows = {} THEN <<>>
    ELSE <<CHOOSE r \in rows : \A s \in rows : r.id <= s.id>>

\* Column affinity TEXT: a number bound to the column is stored as its text.
TextAffinity(value) == PyStr(value.v)

(***************************************************************************)
(* The tables.  kv is created by the facade (key TEXT PRIMARY KEY); the    *)
(* other tables come with the index file, and their keys are the ones the  *)
(* data model of the index gives them.                                     *)
(***************************************************************************)
KvKey(r) == r.key
ModelKey(r) == r.id
EmbeddingKey(r) == <<r.id, r.start, r.end, r.model_id>>
TagKey(r) == <<r.id, r.tag>>
PrimaryKey(name, r) ==
    CASE name = "kv" -> KvKey(r)
      [] name = "model" -> ModelKey(r)
      [] name = "embedding" -> EmbeddingKey(r)
      [] name = "tag" -> TagKey(r)

\* REPLACE INTO: the rows that conflict with the new row on the table's key
\* are deleted, then the new row is inserted.
Conflicts(table, row, name) ==
    {r \in table : PrimaryKey(name, r) = PrimaryKey(name, row)}
Replace(table, row, name) == (table \ Conflicts(table, row, name)) \cup {row}

DescriptorRow ==
    [id |-> 1, version_major |-> 3, version_minor |-> 0, version_patch |-> 0,
     root |-> "/data", name |-> "idx", rewrite_url |-> "", timestamp |-> 0]
VersionRows == {[id |-> 1, date |-> "d1"], [id |-> 2, date |-> "d2"]}
ThumbnailRows == <<[id |-> 1, data |-> "t1"], [id |-> 1, data |-> "t1b"]>>

Tables(document, has_kv, kv, embedding, tag, model) ==
    [descriptor |-> <<DescriptorRow>>, version |-> VersionRows,
     thumbnail |-> ThumbnailRows, document |-> document, has_kv |-> has_kv,
     kv |-> kv, embedding |-> embedding, tag |-> tag, model |-> model]

NoTables == Tables({}, FALSE, {}, {}, {}, {})

DocRow(id, mtime, size, json_data) ==
    [id |-> id, version |-> 1, mtime |-> mtime, size |-> size, json_data |-> json_data]

(***************************************************************************)
(* Connections and transactions.                                           *)
(***************************************************************************)
\* What the statements of facade f read.
View(f) == IF conn[f].in_transaction THEN conn[f].snap ELSE disk

\* Another connection holds the write lock of the file.
Locked(f) == \E g \in Facades \ {f} : conn[g].in_transaction

\* The first data-changing statement of a connection begins its transaction;
\* the statement acts on the connection's uncommitted tables.
Called(f) == IF conn[f].calls = 0 THEN 1 ELSE 2

Dml(f, tables) ==
    [conn EXCEPT ![f] = [open |-> TRUE, in_transaction |-> TRUE, snap |-> tables,
                         calls |-> Called(f)]]

\* A call on facade f that leaves its connection as it is.
Touch(f) == [conn EXCEPT ![f].calls = Called(f)]

\* A call that returned `ret`, and one that raised `exc`.  `eff` is what the
\* statement of the call found in its table: the rows it replaced, updated or
\* deleted.
Call(op, f, arg, ret, eff) ==
    [op |-> op, f |-> f, arg |-> arg, exc |-> "", ret |-> ret, eff |-> eff]
Raise(op, f, arg, exc) ==
    [op |-> op, f |-> f, arg |-> arg, exc |-> exc, ret |-> None, eff |-> {}]

\* cursor.execute(...) then cursor.fetchone(): the first row or nothing, and
\* the rows that stay in the cursor.
FetchOne(rows) == IF rows = <<>> THEN <<>> ELSE <<Head(rows)>>
AfterFetchOne(rows) == IF rows = <<>> THEN <<>> ELSE Tail(rows)

\* sqlite3.OperationalError: database is locked.  The call changes nothing.
Raises(op, f, arg) ==
    /\ last' = Raise(op, f, arg, "OperationalError")
    /\ conn' = Touch(f)
    /\ UNCHANGED <<disk, cur, last_id, descriptor, versions, gen, kvlog>>

(***************************************************************************)
(* Sist2Index.__init__                                                     *)
(***************************************************************************)
_get_descriptor(tables) == Head(tables.descriptor)
_get_versions(tables) == OrderById(tables.version)

ClosedConn ==
    [open |-> FALSE, in_transaction |-> FALSE, snap |-> NoTables, calls |-> 0]
OpenConn ==
    [open |-> TRUE, in_transaction |-> FALSE, snap |-> NoTables, calls |-> 0]

\* CREATE TABLE IF NOT EXISTS kv runs outside a transaction: it is committed
\* at once, and it needs the write lock only when the table is missing.
Sist2Index(f) ==
    /\ ~conn[f].open
    /\ disk.has_kv \/ ~Locked(f)
    /\ conn' = [conn EXCEPT ![f] = OpenConn]
    /\ cur' = [cur EXCEPT ![f] = <<>>]
    /\ last_id' = [last_id EXCEPT ![f] = None]
    /\ descriptor' = [descriptor EXCEPT ![f] = <<_get_descriptor(disk)>>]
    /\ versions' = [versions EXCEPT ![f] = _get_versions(disk)]
    /\ disk' = [disk EXCEPT !.has_kv = TRUE]
    /\ last' = Call("Sist2Index", f, <<>>, None, {})
    /\ kvlog' = [k \in DOMAIN kvlog |->
                  IF kvlog[k].status \in {"committed", "lost"}
                  THEN [kvlog[k] EXCEPT !.later = @ \cup {f}] ELSE kvlog[k]]
    /\ UNCHANGED gen

\* The facade goes away (the script ends, the object is collected): the
\* connection closes and its open transaction is rolled back.
Terminate(f) ==
    /\ conn[f].open
    /\ conn' = [conn EXCEPT ![f] = ClosedConn]
    /\ cur' = [cur EXCEPT ![f] = <<>>]
    /\ last_id' = [last_id EXCEPT ![f] = None]
    /\ descriptor' = [descriptor EXCEPT ![f] = <<>>]
    /\ versions' = [versions EXCEPT ![f] = <<>>]
    /\ gen' = [i \in Gens |->
                IF gen[i].f = f /\ gen[i].state \in {"created", "suspended"}
                THEN [gen[i] EXCEPT !.state = "abandoned"] ELSE gen[i]]
    /\ kvlog' = [k \in DOMAIN kvlog |->
                  IF kvlog[k].status = "pending" /\ kvlog[k].by = f
                  THEN [kvlog[k] EXCEPT !.status = "lost", !.later = {}]
                  ELSE [kvlog[k] EXCEPT !.later = @ \ {f}]]
    /\ last' = Call("Terminate", f, <<>>, None, {})
    /\ UNCHANGED disk

(***************************************************************************)
(* The key-value table.                                                    *)
(***************************************************************************)
\* No row for the key.
Miss == [t |-> "miss", v |-> ""]
Stored(kv, key) ==
    IF \E r \in kv : r.key = key THEN (CHOOSE r \in kv : r.key = key).value ELSE Miss

get(f, key, default) ==
    /\ conn[f].open
    /\ LET rows == AnyOrder({r \in View(f).kv : r.key = key})
           row == FetchOne(rows)
       IN  /\ cur' = [cur EXCEPT ![f] = AfterFetchOne(rows)]
           /\ last' = Call("get", f, <<key, default>>,
                           IF row # <<>> THEN row[1].value ELSE default, {})
    /\ conn' = Touch(f)
    /\ UNCHANGED <<disk, last_id, descriptor, versions, gen, kvlog>>

set(f, key, value) ==
    /\ conn[f].open
    /\ IF Locked(f) THEN Raises("set", f, <<key, value>>)
       ELSE LET t == View(f)
                row == [key |-> key, value |-> TextAffinity(value)]
            IN  /\ conn' = Dml(f, [t EXCEPT !.kv = Replace(@, row, "kv")])
                /\ cur' = [cur EXCEPT ![f] = <<>>]
                /\ kvlog' = [kvlog EXCEPT ![key] =
                       [status |-> "pending", by |-> f, v |-> value, later |-> {},
                        before |-> Stored(t.kv, key),
                        first_before |-> IF @.status = "pending"
                                         THEN @.first_before
                                         ELSE Stored(t.kv, key)]]
                /\ last' = Call("set", f, <<key, value>>, None,
                                Conflicts(t.kv, row, "kv"))
                /\ UNCHANGED <<disk, last_id, descriptor, versions, gen>>

\* Mutant: the pending changes are dropped instead of written.
commit_rolls_back(f) ==
    /\ conn[f].open
    /\ disk' = disk
    /\ conn' = [conn EXCEPT ![f] = [OpenConn EXCEPT !.calls = Called(f)]]
    /\ kvlog' = [k \in DOMAIN kvlog |->
                  IF kvlog[k].status = "pending" /\ kvlog[k].by = f
                  THEN [kvlog[k] EXCEPT !.status = "committed", !.later = {}]
                  ELSE kvlog[k]]
    /\ last' = Call("commit", f, <<>>, None, {})
    /\ UNCHANGED <<cur, last_id, descriptor, versions, gen>>

commit(f) ==
    /\ conn[f].open
    /\ disk' = View(f)
    /\ conn' = [conn EXCEPT ![f] = [OpenConn EXCEPT !.calls = Called(f)]]
    /\ kvlog' = [k \in DOMAIN kvlog |->
                  IF kvlog[k].status = "pending" /\ kvlog[k].by = f
                  THEN [kvlog[k] EXCEPT !.status = "committed", !.later = {}]
                  ELSE kvlog[k]]
    /\ last' = Call("commit", f, <<>>, None, {})
    /\ UNCHANGED <<cur, last_id, descriptor, versions, gen>>

(***************************************************************************)
(* Reads of the document and thumbnail tables.                             *)
(***************************************************************************)
get_thumbnail(f, id) ==
    /\ conn[f].open
    /\ LET rows == SelectSeq(View(f).thumbnail, LAMBDA r : r.id = id)
           row == FetchOne(rows)
       IN  /\ cur' = [cur EXCEPT ![f] = AfterFetchOne(rows)]
           /\ last' = Call("get_thumbnail", f, <<id>>,
                           IF row = <<>> THEN None ELSE row[1].data, {})
    /\ conn' = Touch(f)
    /\ UNCHANGED <<disk, last_id, descriptor, versions, gen, kvlog>>

CountClause(where) == IF where # <<>> THEN <<"WHERE">> \o where ELSE <<>>
CountStar(tables, where) ==
    Cardinality(Where(tables.document, CountClause(where), <<>>))

\* Mutant: the count starts over the iteration position, as document_iter does.
document_count_resets(f, where) ==
    /\ conn[f].open
    /\ cur' = [cur EXCEPT ![f] = <<>>]
    /\ last_id' = [last_id EXCEPT ![f] = None]
    /\ last' = Call("document_count", f, where, CountStar(View(f), where), {})
    /\ conn' = Touch(f)
    /\ UNCHANGED <<disk, descriptor, versions, gen, kvlog>>

document_count(f, where) ==
    /\ conn[f].open
    /\ cur' = [cur EXCEPT ![f] = <<>>]
    /\ last' = Call("document_count", f, where, CountStar(View(f), where), {})
    /\ conn' = Touch(f)
    /\ UNCHANGED <<disk, last_id, descriptor, versions, gen, kvlog>>

(***************************************************************************)
(* document_iter and _get_next_doc.  document_iter is a generator          *)
(* function: the call only makes the generator object; its body runs up to *)
(* the next yield each time the caller asks the generator for an item.     *)
(***************************************************************************)
\* state, f, where, doc: the generator object and the locals of its frame.
\* History: the ids it has yielded, the last_id it found when its body
\* started, and the ids of the table at that moment.
NewGen == [state |-> "new", f |-> 0, where |-> <<>>, doc |-> <<>>,
           yielded |-> <<>>, found |-> None, start |-> {}]

document_iter(i, f, where) ==
    /\ conn[f].open
    /\ gen[i].state = "new"
    /\ gen' = [gen EXCEPT ![i] = [NewGen EXCEPT !.state = "created", !.f = f,
                                                !.where = where]]
    /\ last' = Call("document_iter", f, where, i, {})
    /\ conn' = Touch(f)
    /\ UNCHANGED <<disk, cur, last_id, descriptor, versions, kvlog>>

\* Mutant: the body of the generator does not reset the position.
ResetLastIdNever(state, lastId) == lastId

\* self.last_id = None, the first statement of the generator's body.
ResetLastId(state, lastId) == IF state = "created" THEN None ELSE lastId

\* Mutant: the first fetch leaves the caller's filter out.
NextClauseFirstUnfiltered(lastId, where) ==
    IF lastId = None THEN <<>>
    ELSE IF where # <<>>
    THEN <<"WHERE", "document.id > ?", "AND", "(">> \o where \o <<")">>
    ELSE <<"WHERE", "document.id > ?">>

\* Mutant: the caller's filter is appended without parentheses.
NextClauseNoParens(lastId, where) ==
    IF lastId = None
    THEN (IF where # <<>> THEN <<"WHERE">> \o where ELSE <<>>)
    ELSE IF where # <<>>
    THEN <<"WHERE", "document.id > ?", "AND">> \o where
    ELSE <<"WHERE", "document.id > ?">>

\* The WHERE clause and the arguments of the statement _get_next_doc executes.
NextClause(lastId, where) ==
    IF lastId = None
    THEN (IF where # <<>> THEN <<"WHERE">> \o where ELSE <<>>)
    ELSE IF where # <<>>
    THEN <<"WHERE", "document.id > ?", "AND", "(">> \o where \o <<")">>
    ELSE <<"WHERE", "document.id > ?">>

\* Mutant: the seek starts one id too far.
NextArgsOffByOne(lastId) == IF lastId = None THEN <<>> ELSE <<lastId + 1>>

NextArgs(lastId) == IF lastId = None THEN <<>> ELSE <<lastId>>

\* os.path.join of the components, kept as the sequence of the components.
FileName(j) ==
    j.name \o (IF j.extension # "" THEN "." \o j.extension ELSE "")
Sist2Document(row, root) ==
    LET j == json_loads(row.json_data)
    IN  [id |-> row.id, version |-> row.version, mtime |-> row.mtime,
         size |-> row.size, json_data |-> j,
         rel_path |-> <<j.path, FileName(j)>>,
         path |-> <<root, j.path, FileName(j)>>]

\* The result set of the statement of _get_next_doc.
_get_next_doc(f, lastId, where) ==
    OrderByIdLimit1(Where(View(f).document, NextClause(lastId, where),
                          NextArgs(lastId)))

\* Mutant: last_id is an attribute of the class, one for all facades.
LastIdOfClass(f) == 1

\* self.last_id is an attribute of the instance.
LastIdOf(f) == f

\* The caller asks generator i for its next item.
next(i) ==
    /\ gen[i].state \in {"created", "suspended"}
    /\ conn[gen[i].f].open
    /\ LET f == gen[i].f
           o == LastIdOf(f)
           lastId == ResetLastId(gen[i].state, last_id[o])
           rows == _get_next_doc(f, lastId, gen[i].where)
           g == IF gen[i].state = "created"
                THEN [gen[i] EXCEPT !.found = last_id[o],
                                    !.start = {r.id : r \in View(f).document}]
                ELSE gen[i]
       IN  /\ cur' = [cur EXCEPT ![f] = AfterFetchOne(rows)]
           /\ IF rows = <<>>
              THEN /\ last_id' = [last_id EXCEPT ![o] = lastId]
                   /\ gen' = [gen EXCEPT ![i] = [g EXCEPT !.state = "done"]]
                   /\ last' = Raise("next", f, i, "StopIteration")
              ELSE /\ last_id' = [last_id EXCEPT ![o] = rows[1].id]
                   /\ gen' = [gen EXCEPT ![i] =
                                [g EXCEPT !.state = "suspended",
                                          !.yielded = Append(@, rows[1].id),
                                          !.doc = <<Sist2Document(rows[1],
                                                     descriptor[f][1].root)>>]]
                   /\ last' = Call("next", f, i,
                                   Sist2Document(rows[1], descriptor[f][1].root), {})
    /\ conn' = Touch(gen[i].f)
    /\ UNCHANGED <<disk, descriptor, versions, kvlog>>

\* The caller drops the generator before it is exhausted.
abandon(i) ==
    /\ gen[i].state \in {"created", "suspended"}
    /\ gen' = [gen EXCEPT ![i].state = "abandoned"]
    /\ last' = Call("abandon", gen[i].f, i, None, {})
    /\ UNCHANGED <<disk, conn, cur, last_id, descriptor, versions, kvlog>>

(***************************************************************************)
(* Mutations.                                                              *)
(***************************************************************************)
register_model(f, row) ==
    /\ conn[f].open
    /\ IF Locked(f) THEN Raises("register_model", f, row)
       ELSE LET t == View(f)
            IN  /\ conn' = Dml(f, [t EXCEPT !.model = Replace(@, row, "model")])
                /\ cur' = [cur EXCEPT ![f] = <<>>]
                /\ last' = Call("register_model", f, row, None,
                                Conflicts(t.model, row, "model"))
                /\ UNCHANGED <<disk, last_id, descriptor, versions, gen, kvlog>>

\* Mutant: INSERT INTO instead of REPLACE INTO, on a table without the key.
upsert_embedding_inserts(f, row) ==
    /\ conn[f].open
    /\ IF Locked(f) THEN Raises("upsert_embedding", f, row)
       ELSE LET t == View(f)
            IN  /\ conn' = Dml(f, [t EXCEPT !.embedding = @ \cup {row}])
                /\ cur' = [cur EXCEPT ![f] = <<>>]
                /\ last' = Call("upsert_embedding", f, row, None,
                                Conflicts(t.embedding, row, "embedding"))
                /\ UNCHANGED <<disk, last_id, descriptor, versions, gen, kvlog>>

upsert_embedding(f, row) ==
    /\ conn[f].open
    /\ IF Locked(f) THEN Raises("upsert_embedding", f, row)
       ELSE LET t == View(f)
            IN  /\ conn' = Dml(f, [t EXCEPT !.embedding = Replace(@, row, "embedding")])
                /\ cur' = [cur EXCEPT ![f] = <<>>]
                /\ last' = Call("upsert_embedding", f, row, None,
                                Conflicts(t.embedding, row, "embedding"))
                /\ UNCHANGED <<disk, last_id, descriptor, versions, gen, kvlog>>

\* Mutant: the UPDATE has no WHERE.
UpdateRowsAll(document, doc) ==
    {[r EXCEPT !.mtime = doc.mtime, !.size = doc.size,
               !.json_data = json_dumps(doc.json_data)] : r \in document}

\* UPDATE document SET mtime=?, size=?, json_data=? WHERE id=?
UpdateRows(document, doc) ==
    {IF r.id = doc.id
     THEN [r EXCEPT !.mtime = doc.mtime, !.size = doc.size,
                    !.json_data = json_dumps(doc.json_data)]
     ELSE r : r \in document}

update_document(f, doc) ==
    /\ conn[f].open
    /\ IF Locked(f) THEN Raises("update_document", f, doc)
       ELSE LET t == View(f)
            IN  /\ conn' = Dml(f, [t EXCEPT !.document = UpdateRows(@, doc)])
                /\ cur' = [cur EXCEPT ![f] = <<>>]
                /\ last' = Call("update_document", f, doc, None,
                                {r \in t.document : r.id = doc.id})
                /\ UNCHANGED <<disk, last_id, descriptor, versions, gen, kvlog>>

\* json_each(document.json_data->>'tag'): the elements of the tag array, none
\* when the bag has no tag.
JsonEachTag(text) ==
    IF "tag" \in DOMAIN text.val THEN text.val.tag ELSE <<>>

\* SELECT document.id, json_each.value FROM document, json_each(...)
RECURSIVE TagSelect(_)
TagSelect(rows) ==
    IF rows = <<>> THEN <<>>
    ELSE LET r == Head(rows)
             tags == JsonEachTag(r.json_data)
         IN  [k \in 1..Len(tags) |-> [id |-> r.id, tag |-> tags[k]]]
             \o TagSelect(Tail(rows))

RECURSIVE ReplaceIntoTag(_, _)
ReplaceIntoTag(tag, rows) ==
    IF rows = <<>> THEN tag
    ELSE ReplaceIntoTag(Replace(tag, Head(rows), "tag"), Tail(rows))

\* Mutant: the table is not emptied first.
DeleteFromTagNothing(tag) == tag

\* DELETE FROM tag
DeleteFromTag(tag) == {}

sync_tag_table(f) ==
    /\ conn[f].open
    /\ IF Locked(f) THEN Raises("sync_tag_table", f, <<>>)
       ELSE LET t == View(f)
                rows == TagSelect(OrderById(t.document))
            IN  /\ conn' = Dml(f, [t EXCEPT !.tag =
                                     ReplaceIntoTag(DeleteFromTag(@), rows)])
                /\ cur' = [cur EXCEPT ![f] = <<>>]
                /\ last' = Call("sync_tag_table", f, <<>>, None, t.tag)
                /\ UNCHANGED <<disk, last_id, descriptor, versions, gen, kvlog>>

(***************************************************************************)
(* The indexer, another process: it appends a document row whose id is     *)
(* higher than every id of the table, in a transaction of its own.         *)
(***************************************************************************)
WriterAppend(row) ==
    /\ \A f \in Facades : ~conn[f].in_transaction
    /\ \A r \in disk.document : r.id < row.id
    /\ disk' = [disk EXCEPT !.document = @ \cup {row}]
    /\ last' = Call("WriterAppend", 0, row, None, {})
    /\ UNCHANGED <<conn, cur, last_id, descriptor, versions, gen, kvlog>>

(***************************************************************************)
(* Inputs and initial states.                                              *)
(***************************************************************************)
SizeFilter == <<"size > 1">>
OrFilter == <<"size > 1", "OR", "mtime > 1">>
AndFilter == <<"size > 1", "AND", "mtime > 1">>
Filters == {<<>>, SizeFilter, OrFilter, AndFilter}

Sizes == {1, 2}
MtimeOf(id) == 1 + (id % 2)
PlainRow(id, size) == DocRow(id, MtimeOf(id), size, IndexerJson(Bag("txt")))

\* The document tables of the scans: any set of ids, any sizes.
ScanDocuments ==
    UNION {{{PlainRow(id, sz[id]) : id \in S} : sz \in [S -> Sizes]} : S \in SUBSET Ids}

Keys == {"k"}
NoKvLog == [k \in Keys |-> [status |-> "none", by |-> 0, v |-> Miss, later |-> {},
                            before |-> Miss, first_before |-> Miss]]

\* The facades of `open` are constructed on the index file `tables`.
Constructed(open, tables, f0) ==
    /\ disk = tables
    /\ conn = [f \in Facades |-> IF f \in open THEN OpenConn ELSE ClosedConn]
    /\ cur = [f \in Facades |-> <<>>]
    /\ last_id = [f \in Facades |-> None]
    /\ descriptor = [f \in Facades |->
                       IF f \in open THEN <<_get_descriptor(tables)>> ELSE <<>>]
    /\ versions = [f \in Facades |->
                     IF f \in open THEN _get_versions(tables) ELSE <<>>]
    /\ gen = [i \in Gens |-> NewGen]
    /\ kvlog = NoKvLog
    /\ last = Call("Sist2Index", f0, <<>>, None, {})

(***************************************************************************)
(* Scan: one facade on an index nobody writes; iterations one after the    *)
(* other (a generator is a fresh object each time), and counts.            *)
(***************************************************************************)
Renew(i) ==
    /\ gen[i].state \in {"done", "abandoned"}
    /\ gen' = [gen EXCEPT ![i] = NewGen]
    /\ last' = Call("del", 0, i, None, {})
    /\ UNCHANGED <<disk, conn, cur, last_id, descriptor, versions, kvlog>>

InitScan ==
    \E d \in ScanDocuments : Constructed({1}, Tables(d, TRUE, {}, {}, {}, {}), 1)

NextScan ==
    \/ \E where \in Filters : document_iter(1, 1, where)
    \/ next(1)
    \/ abandon(1)
    \/ Renew(1)
    \/ \E where \in Filters : document_count(1, where)

SpecScan == InitScan /\ [][NextScan]_vars

MatchingIds(document, where) ==
    {r.id : r \in {x \in document : where = <<>> \/ EvalExpr(where, x, <<>>)}}

IsPrefix(s, t) == Len(s) <= Len(t) /\ s = SubSeq(t, 1, Len(s))

\* C1: on a table nothing changes, an iteration with the empty filter has at
\* every point yielded an initial stretch of the ids in increasing order, and
\* once it has ended it has yielded every id exactly once, in that order.
C1_DrainVisitsAll ==
    \A i \in Gens :
        gen[i].where = <<>> /\ gen[i].state \in {"suspended", "done", "abandoned"} =>
            /\ IsPrefix(gen[i].yielded, SortedSeq({r.id : r \in disk.document}))
            /\ gen[i].state = "done" =>
                   gen[i].yielded = SortedSeq({r.id : r \in disk.document})

C1_Witness ==
    /\ gen[1].state = "done" /\ gen[1].where = <<>>
    /\ Len(gen[1].yielded) = MaxId
    /\ last.op = "next" /\ last.exc = "StopIteration"

\* C2: on a table nothing changes, document_count(F) returns the number of
\* documents a drained document_iter(F) has yielded, and the drained iteration
\* has yielded exactly the rows the COUNT statement selects.
C2_CountEqualsDrain ==
    \A i \in Gens :
        gen[i].state = "done" =>
            /\ last.op = "document_count" /\ last.arg = gen[i].where =>
                   last.ret = Len(gen[i].yielded)
            /\ Range(gen[i].yielded) =
                   {r.id : r \in Where(disk.document, CountClause(gen[i].where), <<>>)}
            /\ Cardinality(Range(gen[i].yielded)) = Len(gen[i].yielded)

C2_Witness ==
    /\ gen[1].state = "done" /\ gen[1].where = OrFilter
    /\ last.op = "document_count" /\ last.arg = OrFilter /\ last.ret = 2
    /\ gen[1].yielded = <<1, 3>>
    /\ Cardinality(disk.document) = 3

\* C8: an iteration started on a facade after an earlier one was drained or
\* abandoned yields, once drained, every matching document from the lowest
\* matching id on, whatever last_id the earlier iteration left behind.
C8_RestartYieldsAll ==
    \A i \in Gens :
        gen[i].state = "done" =>
            gen[i].yielded = SortedSeq(MatchingIds(disk.document, gen[i].where))

C8_Witness ==
    /\ gen[1].state = "done"
    /\ gen[1].found # None
    /\ Len(gen[1].yielded) >= 2
    /\ gen[1].yielded[1] <= gen[1].found
    /\ gen[1].found < Max({r.id : r \in disk.document})

(***************************************************************************)
(* Append: a scan of one facade while the indexer appends documents.       *)
(***************************************************************************)
InitAppend ==
    \E d \in ScanDocuments : Constructed({1}, Tables(d, TRUE, {}, {}, {}, {}), 1)

NextAppend ==
    \/ \E where \in Filters : document_iter(1, 1, where)
    \/ next(1)
    \/ \E id \in Ids, size \in Sizes : WriterAppend(PlainRow(id, size))

SpecAppend == InitAppend /\ [][NextAppend]_vars

StrictlyIncreasing(s) == \A a, b \in DOMAIN s : a < b => s[a] < s[b]

\* C3: while the indexer appends documents with higher ids, the ids a scan
\* has yielded are strictly increasing at every point, no matching document
\* that was in the table when the scan started and lies at or below the last
\* yielded id is missing, and a drained scan has yielded all of them.
C3_AppendsDoNotCorrupt ==
    \A i \in Gens :
        gen[i].state \in {"suspended", "done"} =>
            LET old == MatchingIds({r \in disk.document : r.id \in gen[i].start},
                                   gen[i].where)
                y == gen[i].yielded
            IN  /\ StrictlyIncreasing(y)
                /\ \A id \in old : y # <<>> /\ id <= y[Len(y)] => id \in Range(y)
                /\ gen[i].state = "done" => old \subseteq Range(y)

C3_Witness ==
    /\ gen[1].state = "done"
    /\ gen[1].start = {1}
    /\ Len(gen[1].yielded) = 3
    /\ gen[1].where = OrFilter

(***************************************************************************)
(* Interleave: two generators, on one facade or on one facade each,        *)
(* advanced in any order.                                                  *)
(***************************************************************************)
InitInterleave ==
    \E d \in ScanDocuments : Constructed({1, 2}, Tables(d, TRUE, {}, {}, {}, {}), 1)

NextInterleave ==
    \/ \E i \in Gens, f \in Facades, where \in {<<>>, SizeFilter} :
           document_iter(i, f, where)
    \/ \E i \in Gens : next(i)

SpecInterleave == InitInterleave /\ [][NextInterleave]_vars

SeparateFacades ==
    /\ \A i \in Gens : gen[i].state # "new"
    /\ \A i, j \in Gens : i # j => gen[i].f # gen[j].f

\* C9: two iterations on separate facades of the same file each yield, once
\* drained, every matching document exactly once in increasing id order,
\* however they are interleaved.  (Two iterations on one facade do not: the
\* witness is a drained iteration that missed a matching document.)
C9_SeparateFacadesAreSafe ==
    SeparateFacades =>
        \A i \in Gens :
            /\ IsPrefix(gen[i].yielded,
                        SortedSeq(MatchingIds(disk.document, gen[i].where)))
            /\ gen[i].state = "done" =>
                   gen[i].yielded = SortedSeq(MatchingIds(disk.document, gen[i].where))

C9_Witness ==
    /\ gen[1].f = gen[2].f
    /\ gen[1].state = "done" /\ gen[2].state = "done"
    /\ gen[1].where = gen[2].where
    /\ \E id \in MatchingIds(disk.document, gen[2].where) : id \notin Range(gen[2].yielded)
    /\ gen[1].yielded # gen[2].yielded

(***************************************************************************)
(* KeyValue: two facades on one file, made and dropped at any time, that   *)
(* get, set and commit.                                                    *)
(***************************************************************************)
KvValues == {PyStr("v"), PyStr("w"), PyInt("5")}
Fallback == PyStr("fallback")

InitKeyValue ==
    \E kv \in {{}, {[key |-> "k", value |-> PyStr("old")]}}, has_kv \in BOOLEAN :
        /\ kv # {} => has_kv
        /\ Constructed({}, Tables({}, has_kv, kv, {}, {}, {}), 0)

NextKeyValue ==
    \/ \E f \in Facades : Sist2Index(f)
    \/ \E f \in Facades : Terminate(f)
    \/ \E f \in Facades, key \in Keys : get(f, key, Fallback)
    \/ \E f \in Facades, key \in Keys, value \in KvValues : set(f, key, value)
    \/ \E f \in Facades : commit(f)

SpecKeyValue == InitKeyValue /\ [][NextKeyValue]_vars

\* What get(key, default) returns when the table holds `stored` for the key.
Returned(stored, default) == IF stored = Miss THEN default ELSE stored

\* The last call is get(key, default), the first call of a facade that was
\* made after the latest set of the key was committed or lost.
FreshGet ==
    /\ last.op = "get" /\ last.exc = ""
    /\ conn[last.f].open /\ conn[last.f].calls = 1
    /\ last.f \in kvlog[last.arg[1]].later

\* C4 as stated: a fresh facade's get returns the value v of the latest
\* set(k, v) once that set was committed, and what get returned before that
\* set when the setting facade ended without commit.
C4_AsStated ==
    FreshGet =>
        LET e == kvlog[last.arg[1]]
        IN  /\ e.status = "committed" => last.ret = e.v
            /\ e.status = "lost" => last.ret = Returned(e.before, last.arg[2])

\* C4, amended: committed kv rows change only in commit; a fresh facade's get
\* returns the stored text of the value of the latest committed set (the
\* value itself for a str, its text for an int), and, when the setting
\* facade ended without commit, what get returned before the first set of the
\* key that was not committed.
C4_CommitVisibility ==
    /\ [](FreshGet =>
            LET e == kvlog[last.arg[1]]
            IN  /\ e.status = "committed" => last.ret = TextAffinity(e.v)
                /\ e.status = "lost" =>
                       last.ret = Returned(e.first_before, last.arg[2]))
    /\ [][disk'.kv # disk.kv => last'.op = "commit"]_vars

C4_Witness ==
    /\ FreshGet
    /\ kvlog["k"].status = "lost"
    /\ kvlog["k"].first_before = PyStr("5")
    /\ last.ret = PyStr("5")

(***************************************************************************)
(* Embedding: one facade that upserts embeddings and commits.              *)
(***************************************************************************)
EmbeddingRow(id, start, end, model_id, embedding) ==
    [id |-> id, start |-> start, end |-> end, model_id |-> model_id,
     embedding |-> embedding]

EmbeddingInputs ==
    {EmbeddingRow(id, 0, end, 1, e) : id \in {1, 2}, end \in {None, 5}, e \in {"e1", "e2"}}

InitEmbedding ==
    \E rows \in SUBSET {EmbeddingRow(1, 0, None, 1, "e0"), EmbeddingRow(2, 0, 5, 1, "e0")} :
        Constructed({1}, Tables({}, TRUE, {}, rows, {}, {}), 1)

NextEmbedding ==
    \/ \E row \in EmbeddingInputs : upsert_embedding(1, row)
    \/ commit(1)

SpecEmbedding == InitEmbedding /\ [][NextEmbedding]_vars

TagBags == {Bag("txt"), TaggedBag("txt", <<>>), TaggedBag("txt", <<"x", "x">>),
            TaggedBag("txt", <<"x", "y">>)}
TagDocuments ==
    UNION {{{DocRow(id, 1, 1, IndexerJson(b[id])) : id \in S} : b \in [S -> TagBags]} :
           S \in SUBSET {1, 2}}
StaleTags == {{}, {[id |-> 1, tag |-> "x"]}, {[id |-> 3, tag |-> "old"]}}

\* The documents a script hands to update_document: a Sist2Document with its
\* mtime, size and bag edited; id 3 is no row of the table.
Edited(id, bag) ==
    [id |-> id, version |-> 1, mtime |-> 5, size |-> 7, json_data |-> bag,
     rel_path |-> <<bag.path, FileName(bag)>>,
     path |-> <<"/data", bag.path, FileName(bag)>>]
EditedDocuments ==
    {Edited(id, bag) : id \in {1, 2, 3}, bag \in {Bag(""), TaggedBag("", <<"y">>)}}

InitTag ==
    \E d \in TagDocuments, t \in StaleTags :
        Constructed({1}, Tables(d, TRUE, {}, {}, t, {}), 1)

NextTag ==
    \/ \E doc \in EditedDocuments : update_document(1, doc)
    \/ sync_tag_table(1)
    \/ commit(1)

SpecTag == InitTag /\ [][NextTag]_vars

\* The (document id, tag value) pairs of the tag arrays of the documents.
TagPairs(document) ==
    UNION {{[id |-> r.id, tag |-> tg] : tg \in Range(json_loads(r.json_data).tag)} :
           r \in {x \in document : "tag" \in DOMAIN json_loads(x.json_data)}}

\* C6: after sync_tag_table the tag table holds exactly the (document id, tag
\* value) pairs of the tag arrays of the documents, whatever it held before,
\* and a second sync_tag_table right after the first leaves the table as the
\* first left it.
C6_SyncTagTableRebuilds ==
    /\ [](last.op = "sync_tag_table" /\ last.exc = "" =>
              View(last.f).tag = TagPairs(View(last.f).document))
    /\ [][last.op = "sync_tag_table" /\ last'.op = "sync_tag_table" =>
              \A f \in Facades : View(f)'.tag = View(f).tag]_vars

C6_Witness ==
    /\ last.op = "sync_tag_table"
    /\ last.eff = {[id |-> 3, tag |-> "old"]}
    /\ View(1).tag = {[id |-> 1, tag |-> "x"], [id |-> 2, tag |-> "y"]}
    /\ \E r \in View(1).document : json_loads(r.json_data) = TaggedBag("txt", <<"x", "x">>)

\* C7: update_document(doc) raises nothing, keeps the ids of the document
\* table and every row whose id is not doc.id, gives the row whose id is
\* doc.id the mtime, the size and the bag of doc, and changes no row when no
\* row has that id.
C7_UpdateDocumentByIdOnly ==
    [][\A f \in Facades :
          last'.op = "update_document" /\ last'.f = f =>
              LET doc == last'.arg
                  pre == View(f).document
                  post == View(f)'.document
              IN  /\ last'.exc = ""
                  /\ {r.id : r \in post} = {r.id : r \in pre}
                  /\ Cardinality(post) = Cardinality(pre)
                  /\ \A r \in pre : r.id # doc.id => r \in post
                  /\ \A r \in post : r.id = doc.id =>
                         /\ r.mtime = doc.mtime /\ r.size = doc.size
                         /\ json_loads(r.json_data) = doc.json_data
                         /\ \E q \in pre : q.id = r.id /\ q.version = r.version
                  /\ (\A r \in pre : r.id # doc.id) => post = pre]_vars

C7_Witness ==
    /\ last.op = "update_document" /\ last.exc = ""
    /\ last.arg.id = 3
    /\ last.eff = {}
    /\ Cardinality(View(1).document) = 2
    /\ View(1).document = disk.document

(***************************************************************************)
(* Frame: one facade whose script iterates the documents and, between two  *)
(* fetches, calls the other operations of the facade in any order.         *)
(***************************************************************************)
FrameDocuments == {{PlainRow(id, 1) : id \in S} : S \in SUBSET Ids}
ModelRow ==
    [id |-> 1, name |-> "clip", url |-> "http://m", path |-> "idx_512.clip",
     size |-> 512, type |-> "flat"]

InitFrame ==
    \E d \in FrameDocuments : Constructed({1}, Tables(d, TRUE, {}, {}, {}, {}), 1)

NextFrame ==
    \/ document_iter(1, 1, <<>>)
    \/ next(1)
    \/ get(1, "k", Fallback)
    \/ set(1, "k", PyStr("v"))
    \/ document_count(1, <<>>)
    \/ get_thumbnail(1, 1)
    \/ /\ gen[1].state = "suspended"
       /\ update_document(1, [gen[1].doc[1] EXCEPT !.size = 7])
    \/ upsert_embedding(1, EmbeddingRow(1, 0, None, 1, "e1"))
    \/ register_model(1, ModelRow)
    \/ sync_tag_table(1)
    \/ commit(1)

SpecFrame == InitFrame /\ [][NextFrame]_vars

FrameOps == {"get", "set", "document_count", "get_thumbnail", "update_document",
             "upsert_embedding", "register_model", "sync_tag_table", "commit"}

\* C10: get, set, document_count, get_thumbnail, update_document,
\* upsert_embedding, register_model, sync_tag_table and commit leave last_id
\* as it is, only a fetch of a generator changes it, and an iteration with the
\* empty filter between whose fetches they are called has at every point
\* yielded an initial stretch of the ids in increasing order, all of them
\* once it has ended.
C10_OnlyFetchMovesLastId ==
    /\ [][/\ last'.op \in FrameOps => last_id' = last_id
          /\ last_id' # last_id => last'.op = "next"]_vars
    /\ [](\A i \in Gens :
            gen[i].where = <<>> /\ gen[i].state \in {"suspended", "done"} =>
                LET ids == SortedSeq({r.id : r \in View(gen[i].f).document})
                IN  /\ IsPrefix(gen[i].yielded, ids)
                    /\ gen[i].state = "done" => gen[i].yielded = ids)

C10_Witness ==
    /\ gen[1].state = "done"
    /\ Len(gen[1].yielded) = 3
    /\ \A r \in View(1).document : r.size = 7 /\ r.json_data.fmt = "py"
    /\ View(1).kv # {} /\ View(1).embedding # {} /\ View(1).model # {}
    /\ disk.document = View(1).document

====
